---- MODULE Spec2Model ----
(***************************************************************************)
(* react-native-easy-tooltip: the placement engine (getTooltipCoordinate,  *)
(* constraintX, getTooltipStyle) and the visibility / measurement state    *)
(* machine of the Tooltip component.                                       *)
(*                                                                         *)
(* Lengths are integers in units of dX = 0.001 px, the smallest quantity   *)
(* the placement arithmetic uses, so every sum and comparison of the code  *)
(* is exact here (anchor geometry is whole pixels, halves are 500 units).  *)
(***************************************************************************)
EXTENDS Integers, Sequences, FiniteSets, TLC

VARIABLES
    \* ---- host / platform (helpers.ts, props)
    isIOS,            \* Platform.OS === 'ios'
    isRTL,            \* I18nManager.isRTL
    ScreenWidth,      \* helpers.ts: window width captured at import
    ScreenHeight,     \* helpers.ts: window height captured at import
    window,           \* Dimensions.get('window') as of now: [width, height]
    isVisibleProp,    \* prop isVisible: "undefined" | "true" | "false"
    actionType,       \* prop actionType: "press" | "longPress" | "none"
    withPointer,      \* prop withPointer
    width,            \* prop width:  a dimension, see Num, Pct, Str
    height,           \* prop height: a dimension
    \* ---- component state (useState / useRef)
    phase,            \* "rendered" (effects not yet run) | "mounted" | "unmounted"
    internalVisible,
    xOffset, yOffset, elementWidth, elementHeight,
    timer,            \* timeoutRef's timer: "none" | "scheduled" | "fired" | "cleared"
    \* ---- host rendering layer
    pending,          \* measureInWindow requests in flight (ids)
    issued,           \* origin of every request issued so far, by id
    rectFrom,         \* id of the request whose completion wrote the anchor rect (0: none)
    modal,            \* native Modal: "hidden" | "showing" | "shown" | "dismissing"
    \* ---- what the last render produced
    shown,            \* the value passed to <Modal visible=...>
    coord,            \* getTooltipCoordinate's result (with the quadrant it chose)
    style,            \* getTooltipStyle's result
    \* ---- observation
    ev,               \* the event handled last
    calls,            \* the host callbacks the last handler invoked, in order
    nOnOpen, nOnClose,        \* invocations of onOpen / onClose so far
    nHidToVis, nVisToHid,     \* Hidden->Visible / Visible->Hidden transitions so far
    nPropChanges,             \* host changes of the isVisible prop so far
    nScheduled                \* setTimeout calls of the settle effect so far

hostVars  == <<isIOS, isRTL, ScreenWidth, ScreenHeight, window, actionType, withPointer, width, height>>
rectVars  == <<xOffset, yOffset, elementWidth, elementHeight, rectFrom>>
countVars == <<nOnOpen, nOnClose, nHidToVis, nVisToHid, nPropChanges, nScheduled>>
vars == <<hostVars, isVisibleProp, phase, internalVisible, rectVars, timer, pending,
          issued, modal, shown, coord, style, ev, calls, countVars>>

-----------------------------------------------------------------------------
(* Units *)

\* Units per pixel: one unit is dX = 0.001 px.
UnitsPerPx == 1000
Px(n) == n * UnitsPerPx
HalfPx == UnitsPerPx \div 2

None == <<>>
Some(v) == <<v>>

-----------------------------------------------------------------------------
(* getTooltipCoordinate.ts *)

\* A dimension prop: a number (in units), the string "<p>%" for a natural p,
\* or any other string, kept as the sequence of its characters in text.
Num(n) == [kind |-> "num", v |-> n, text |-> <<>>]
Pct(p) == [kind |-> "pct", v |-> p, text |-> <<>>]
Str(s) == [kind |-> "str", v |-> 0, text |-> s]

\* The value NaN of a JavaScript number (no length of the model is near it).
NaN == -999999999

IsNaN(a) == a = NaN

\* JavaScript arithmetic and comparison on numbers that may be NaN: an
\* operation on NaN is NaN, a comparison with NaN is false.
Add(a, b) == IF IsNaN(a) \/ IsNaN(b) THEN NaN ELSE a + b
Sub(a, b) == IF IsNaN(a) \/ IsNaN(b) THEN NaN ELSE a - b
Lt(a, b) == ~IsNaN(a) /\ ~IsNaN(b) /\ a < b
Gt(a, b) == ~IsNaN(a) /\ ~IsNaN(b) /\ a > b
Ge(a, b) == ~IsNaN(a) /\ ~IsNaN(b) /\ a >= b

DigitChars == <<"0", "1", "2", "3", "4", "5", "6", "7", "8", "9">>

DigitValue(c) == (CHOOSE i \in 1..10 : DigitChars[i] = c) - 1

IsDigit(c) == \E i \in 1..10 : DigitChars[i] = c

RECURSIVE ParseDigits(_, _)
ParseDigits(chars, acc) ==
    IF chars = <<>> THEN acc
    ELSE ParseDigits(Tail(chars), acc * 10 + DigitValue(Head(chars)))

\* Number(string) for strings of digits and letters: the empty string is 0, a
\* string of decimal digits is its value, anything else is NaN.
Number(chars) ==
    IF \A i \in DOMAIN chars : IsDigit(chars[i])
    THEN ParseDigits(chars, 0)
    ELSE NaN

\* dimension.includes('%')
includesPercent(chars) == \E i \in DOMAIN chars : chars[i] = "%"

\* dimension.replace(/%/, ''): the first '%' is removed.
replacePercent(chars) ==
    LET i == CHOOSE k \in DOMAIN chars : chars[k] = "%" /\ \A j \in 1..(k - 1) : chars[j] # "%"
    IN  SubSeq(chars, 1, i - 1) \o SubSeq(chars, i + 1, Len(chars))

\* Number(text) / 100 * screenDimension, for the text before the '%'.
percentOf(n, screenDimension) ==
    IF IsNaN(n) THEN NaN ELSE (n * screenDimension) \div 100

\* A number is returned as is; a string with a '%' is the number before it,
\* divided by 100, times the screen dimension; any other string is Number(it),
\* a count of pixels.
convertDimensionToNumber(dimension, screenDimension) ==
    IF dimension.kind = "pct"
    THEN percentOf(dimension.v, screenDimension)
    ELSE IF dimension.kind = "str"
    THEN IF includesPercent(dimension.text)
         THEN percentOf(Number(replacePercent(dimension.text)), screenDimension)
         ELSE IF IsNaN(Number(dimension.text)) THEN NaN ELSE Px(Number(dimension.text))
    ELSE dimension.v

getArea(a, b) == a * b

RECURSIVE SqrtSearch(_, _, _)
SqrtSearch(n, lo, hi) ==
    IF lo >= hi THEN lo
    ELSE LET mid == (lo + hi + 1) \div 2
         IN  IF mid * mid <= n THEN SqrtSearch(n, mid, hi)
                               ELSE SqrtSearch(n, lo, mid - 1)

\* Math.sqrt on the sums of squares that occur here (one term is always 0, so
\* the argument is a perfect square and the root is exact).
Sqrt(n) == SqrtSearch(n, 0, IF n < 46340 THEN n ELSE 46340)

\* Points are <<x, y>> in units; the distance is returned in half pixels (every
\* centre and edge coordinate is a whole number of half pixels), which keeps
\* the areas below within the integer range.
getPointDistance(a, b) ==
    LET dx == (a[1] - b[1]) \div HalfPx
        dy == (a[2] - b[2]) \div HalfPx
    IN  Sqrt(dx * dx + dy * dy)

\* Array.prototype.sort with (a, b) => b.area - a.area: descending by area,
\* stable (equal areas keep their order).
RECURSIVE InsertByArea(_, _)
InsertByArea(e, s) ==
    IF s = <<>> THEN <<e>>
    ELSE IF Head(s).area >= e.area
         THEN <<Head(s)>> \o InsertByArea(e, Tail(s))
         ELSE <<e>> \o s

\* The same insertion placing an entry before the entries of equal area.
RECURSIVE InsertByAreaUnstable(_, _)
InsertByAreaUnstable(e, s) ==
    IF s = <<>> THEN <<e>>
    ELSE IF Head(s).area > e.area
         THEN <<Head(s)>> \o InsertByAreaUnstable(e, Tail(s))
         ELSE <<e>> \o s

RECURSIVE SortUnstable(_)
SortUnstable(arr) ==
    IF arr = <<>> THEN <<>>
    ELSE InsertByAreaUnstable(arr[Len(arr)], SortUnstable(SubSeq(arr, 1, Len(arr) - 1)))

RECURSIVE sortedArea(_)
sortedArea(arr) ==
    IF arr = <<>> THEN <<>>
    ELSE InsertByArea(arr[Len(arr)], sortedArea(SubSeq(arr, 1, Len(arr) - 1)))

\* 0.001 px
dX == 1

\* Quadrant ids 0..3: top-left, top-right, bottom-right, bottom-left.
directionCorrection == <<  <<-1, -1>>, <<1, -1>>, <<1, 1>>, <<-1, 1>>  >>

displaceReferencePoint(tooltipWidth) ==
    <<  <<Sub(0, tooltipWidth), 0>>, <<0, 0>>, <<0, 0>>, <<Sub(0, tooltipWidth), 0>>  >>

\* The anchor's origin taken for its centre.
CenterAtOrigin(x, y, w, h) == <<x, y>>

center(x, y, w, h) == <<x + w \div 2, y + h \div 2>>

\* The four quadrant areas, in declaration order, each with its id.
areas(x, y, w, h, screenWidth, screenHeight) ==
    LET c      == center(x, y, w, h)
        pOne   == <<c[1], 0>>
        pTwo   == <<screenWidth, c[2]>>
        pThree == <<c[1], screenHeight>>
        pFour  == <<0, c[2]>>
        vOne   == getPointDistance(c, pOne)
        vTwo   == getPointDistance(c, pTwo)
        vThree == getPointDistance(c, pThree)
        vFour  == getPointDistance(c, pFour)
        raw    == << getArea(vOne, vFour), getArea(vOne, vTwo),
                     getArea(vTwo, vThree), getArea(vThree, vFour) >>
    IN  [i \in 1..4 |-> [area |-> raw[i], id |-> i - 1]]

qIndexOf(x, y, w, h, screenWidth, screenHeight) ==
    sortedArea(areas(x, y, w, h, screenWidth, screenHeight))[1].id

constraintX(newX, qIndex, x, screenWidth, tooltipWidth) ==
    CASE qIndex \in {0, 3} ->
            LET maxWidth == IF Gt(newX, screenWidth) THEN screenWidth - Px(10) ELSE newX
            IN  IF Lt(newX, Px(1)) THEN Px(10) ELSE maxWidth
      [] qIndex \in {1, 2} ->
            LET leftOverSpace == Sub(screenWidth, newX)
            IN  IF Ge(leftOverSpace, tooltipWidth)
                THEN newX
                ELSE Sub(newX, Add(Sub(tooltipWidth, leftOverSpace), Px(10)))
      [] OTHER -> 0

\* The unclamped x (newX of the code).
newXOf(cx, qIndex, tooltipWidth, pointer) ==
    LET dir == directionCorrection[qIndex + 1]
        getWithPointerOffsetX == IF pointer THEN cx - Px(18) * dir[1] ELSE cx
    IN  Add(getWithPointerOffsetX,
            Add(dX * dir[1], displaceReferencePoint(tooltipWidth)[qIndex + 1][1]))

\* Lines 113-133: the coordinate in the direction of quadrant qIndex from
\* centre c, for an anchor of height h.
placeInQuadrant(qIndex, c, h, screenWidth, tooltipWidth, pointer) ==
    LET dir == directionCorrection[qIndex + 1]
        dY  == h \div 2
        getWithPointerOffsetY == IF pointer THEN Px(10) * dir[2] ELSE 0
    IN  [ x |-> constraintX(newXOf(c[1], qIndex, tooltipWidth, pointer), qIndex, c[1], screenWidth, tooltipWidth),
          y |-> c[2]
                + (dY * dir[2] + displaceReferencePoint(tooltipWidth)[qIndex + 1][2])
                + getWithPointerOffsetY,
          qIndex |-> qIndex,
          tooltipWidth |-> tooltipWidth,
          newX |-> newXOf(c[1], qIndex, tooltipWidth, pointer) ]

\* screenDims is Dimensions.get('window').width, read inside the function. The
\* result also records the quadrant chosen, the resolved popover width and the
\* x before constraintX.
getTooltipCoordinate(x, y, w, h, screenWidth, screenHeight, receivedTooltipWidth, pointer, screenDims) ==
    placeInQuadrant(qIndexOf(x, y, w, h, screenWidth, screenHeight), center(x, y, w, h), h, screenWidth, convertDimensionToNumber(receivedTooltipWidth, screenDims), pointer)

-----------------------------------------------------------------------------
(* helpers.ts *)

\* StatusBar.currentHeight of the Android device modelled, in pixels.
StatusBarHeight == 24

statusBarOffset(ios) == IF ios THEN 0 ELSE Px(StatusBarHeight)

-----------------------------------------------------------------------------
(* Tooltip.tsx: getTooltipStyle *)

\* The x applied as the left offset whatever the layout direction.
LeftOffsetOnly(x, rtl) == [left |-> Some(x), right |-> None]

\* left: I18nManager.isRTL ? undefined : x, right: I18nManager.isRTL ? x : undefined
horizontalOffsets(x, rtl) ==
    [ left  |-> IF rtl THEN None ELSE Some(x),
      right |-> IF rtl THEN Some(x) ELSE None ]

\* Lines 193-221: the style for coordinate xy.
tooltipStyle(xy, yOff, screenHeight, hProp, ios, rtl) ==
    LET pastMiddleLine == yOff > xy.y
        base == horizontalOffsets(xy.x, rtl) @@ [pastMiddleLine |-> pastMiddleLine]
    IN  IF hProp.kind # "num" /\ pastMiddleLine
        THEN base @@ [ bottom |-> Some(screenHeight - xy.y - statusBarOffset(ios)),
                       top    |-> None ]
        ELSE IF hProp.kind = "num" /\ pastMiddleLine
        THEN base @@ [ bottom |-> None,
                       top    |-> Some(xy.y - hProp.v + statusBarOffset(ios)) ]
        ELSE base @@ [ bottom |-> None,
                       top    |-> Some(xy.y + statusBarOffset(ios)) ]

getTooltipStyle(xOff, yOff, elW, elH, screenWidth, screenHeight, wProp, hProp, pointer, screenDims, ios, rtl) ==
    tooltipStyle(getTooltipCoordinate(xOff, yOff, elW, elH, screenWidth, screenHeight, wProp, pointer, screenDims), yOff, screenHeight, hProp, ios, rtl)

-----------------------------------------------------------------------------
(* Bounds *)

\* measureInWindow requests issued in one behaviour.
MaxRequests == 2
\* Host changes of the isVisible prop in one behaviour.
MaxPropChanges == 1
\* Hardware back presses in one behaviour.
MaxBackPresses == 1
\* Spacing of the anchor positions tried by the placement specification (px).
AnchorStep == 100

-----------------------------------------------------------------------------
(* Tooltip.tsx: state, render *)

isControlled(prop) == prop # "undefined"

\* isVisible as if the prop were never consulted.
IsVisibleInternalOnly(prop, internal) == internal

isVisible(prop, internal) == IF isControlled(prop) THEN prop = "true" ELSE internal

Call(fn, arg) == [fn |-> fn, arg |-> arg]
BoolStr(b) == IF b THEN "true" ELSE "false"
CountCalls(seq, fn) == Cardinality({i \in DOMAIN seq : seq[i].fn = fn})

\* What the native Modal does when its visible prop goes from was to now: it
\* presents, and reports onShow later; it dismisses, and on iOS reports
\* onDismiss later.
ModalNext(m, was, now, ios) ==
    IF ~was /\ now THEN "showing"
    ELSE IF was /\ ~now THEN (IF ios THEN "dismissing" ELSE "hidden")
    ELSE m

\* renderContent(true): the popover's style from the stored rect.
Render ==
    /\ coord' = getTooltipCoordinate(xOffset', yOffset', elementWidth', elementHeight', ScreenWidth, ScreenHeight, width, withPointer, window.width)
    /\ style' = getTooltipStyle(xOffset', yOffset', elementWidth', elementHeight', ScreenWidth, ScreenHeight, width, height, withPointer, window.width, isIOS, isRTL)

\* The re-render that follows a handler which leaves the anchor rect alone:
\* the new visibility reaches the Modal, the callbacks the handler invoked
\* are counted, and the placement engine, a pure function of the unchanged
\* rect and props, returns the style it returned before. m is the Modal's
\* state as the handler left it.
Commit(m) ==
    /\ shown' = isVisible(isVisibleProp', internalVisible')
    /\ modal' = ModalNext(m, shown, shown', isIOS)
    /\ nHidToVis' = nHidToVis + (IF ~shown /\ shown' THEN 1 ELSE 0)
    /\ nVisToHid' = nVisToHid + (IF shown /\ ~shown' THEN 1 ELSE 0)
    /\ nOnOpen' = nOnOpen + CountCalls(calls', "onOpen")
    /\ nOnClose' = nOnClose + CountCalls(calls', "onClose")
    /\ UNCHANGED <<coord, style>>

-----------------------------------------------------------------------------
(* Tooltip.tsx: handlers *)

\* getElementPosition: renderedElement.current?.measureInWindow(callback).
\* The ref is set while the component is mounted and null afterwards.
getElementPosition(by) ==
    IF phase = "mounted"
    THEN /\ pending' = pending \cup {Len(issued) + 1}
         /\ issued' = Append(issued, by)
    ELSE UNCHANGED <<pending, issued>>

\* The close callback of a toggle, reported whatever the platform.
ClosesOnAnyPlatform(visible, ios) == visible

\* toggleTooltip's "if (isVisible && !isIOS) onClose()" / "if (prev && !isIOS)".
closesOnToggle(visible, ios) == visible /\ ~ios

toggleTooltip(e) ==
    /\ Len(issued) < MaxRequests
    /\ getElementPosition("toggle")
    /\ IF isControlled(isVisibleProp)
       THEN /\ calls' = <<Call("onVisibilityChange", BoolStr(~isVisible(isVisibleProp, internalVisible)))>>
                        \o (IF closesOnToggle(isVisible(isVisibleProp, internalVisible), isIOS)
                            THEN <<Call("onClose", "-")>> ELSE <<>>)
            /\ internalVisible' = internalVisible
       ELSE /\ calls' = (IF closesOnToggle(internalVisible, isIOS)
                         THEN <<Call("onClose", "-")>> ELSE <<>>)
            /\ internalVisible' = ~internalVisible
    /\ ev' = e
    /\ UNCHANGED <<hostVars, isVisibleProp, phase, rectVars, timer, nPropChanges, nScheduled>>
    /\ Commit(modal)

\* wrapWithAction: the trigger is wrapped in a touchable whose onPress or
\* onLongPress is toggleTooltip, or (actionType 'none') not wrapped at all.
\* While the Modal is presented its overlay covers the trigger.
TriggerGesture(g) ==
    /\ phase = "mounted"
    /\ ~shown
    /\ IF actionType = g
       THEN toggleTooltip(g)
       ELSE /\ ev' = g
            /\ calls' = <<>>
            /\ UNCHANGED <<hostVars, isVisibleProp, phase, internalVisible, rectVars, timer,
                           pending, issued, nPropChanges, nScheduled>>
            /\ Commit(modal)

\* The overlay TouchableOpacity inside the Modal: onPress={toggleTooltip}.
OverlayPress ==
    /\ phase = "mounted"
    /\ shown
    /\ toggleTooltip("overlayPress")

\* <Modal onShow={onOpen}>
ModalOnShow ==
    /\ phase = "mounted"
    /\ modal = "showing"
    /\ ev' = "onShow"
    /\ calls' = <<Call("onOpen", "-")>>
    /\ UNCHANGED <<hostVars, isVisibleProp, phase, internalVisible, rectVars, timer,
                   pending, issued, nPropChanges, nScheduled>>
    /\ Commit("shown")

\* <Modal onDismiss={onClose}> (reported by iOS only)
ModalOnDismiss ==
    /\ phase = "mounted"
    /\ modal = "dismissing"
    /\ ev' = "onDismiss"
    /\ calls' = <<Call("onClose", "-")>>
    /\ UNCHANGED <<hostVars, isVisibleProp, phase, internalVisible, rectVars, timer,
                   pending, issued, nPropChanges, nScheduled>>
    /\ Commit("hidden")

\* <Modal onRequestClose={onClose}>: the hardware back button while the Modal
\* is presented (no further press once onClose has run MaxBackPresses times).
ModalRequestClose ==
    /\ phase = "mounted"
    /\ ~isIOS
    /\ shown
    /\ nOnClose < MaxBackPresses
    /\ ev' = "onRequestClose"
    /\ calls' = <<Call("onClose", "-")>>
    /\ UNCHANGED <<hostVars, isVisibleProp, phase, internalVisible, rectVars, timer,
                   pending, issued, nPropChanges, nScheduled>>
    /\ Commit(modal)

\* The host renders the Tooltip with another isVisible.
SetIsVisibleProp(v) ==
    /\ phase = "mounted"
    /\ v # isVisibleProp
    /\ nPropChanges < MaxPropChanges
    /\ isVisibleProp' = v
    /\ nPropChanges' = nPropChanges + 1
    /\ ev' = "props"
    /\ calls' = <<>>
    /\ UNCHANGED <<hostVars, phase, internalVisible, rectVars, timer, pending, issued, nScheduled>>
    /\ Commit(modal)

\* The anchor rectangles the host layout reports.
Rects ==
    { [x |-> Px(0),  y |-> Px(0),   w |-> Px(50),  h |-> Px(20)],
      [x |-> Px(20), y |-> Px(500), w |-> Px(100), h |-> Px(40)] }

\* The callback leaving the height of the previous measurement in place.
SetRectKeepHeight(r) ==
    /\ xOffset' = r.x
    /\ yOffset' = r.y
    /\ elementWidth' = r.w
    /\ elementHeight' = elementHeight

\* setXOffset(pageOffsetX); setYOffset(pageOffsetY); setElementWidth(w);
\* setElementHeight(h)
setRect(r) ==
    /\ xOffset' = r.x
    /\ yOffset' = r.y
    /\ elementWidth' = r.w
    /\ elementHeight' = r.h

\* A state update applied whatever has become of the component.
UpdateAppliesAlways(ph) == TRUE

\* The setters are those of useState: React applies an update to a mounted
\* component and drops the update of one that has been unmounted.
updateApplies(ph) == ph = "mounted"

\* The measureInWindow callback: the four setters.
MeasureComplete(id, r) ==
    /\ id \in pending
    /\ pending' = pending \ {id}
    /\ IF updateApplies(phase)
       THEN /\ setRect(r)
            /\ rectFrom' = id
            /\ ev' = "measured"
            /\ calls' = <<>>
            /\ UNCHANGED <<hostVars, isVisibleProp, phase, internalVisible, timer, issued,
                           modal, shown, countVars>>
            /\ Render
       ELSE /\ ev' = "measuredLate"
            /\ calls' = <<>>
            /\ UNCHANGED <<hostVars, isVisibleProp, phase, internalVisible, rectVars, timer,
                           issued, modal, shown, coord, style, countVars>>

\* clearTimeout left out of the effect's cleanup.
KeepTimeout(t) == t

\* The cleanup's clearTimeout(timeoutRef.current): a timer still waiting is
\* cancelled, one that has fired is not affected.
clearTimeout(t) == IF t = "scheduled" THEN "cleared" ELSE t

\* useEffect(() => { timeoutRef.current = setTimeout(getElementPosition, 500) ... },
\* [getElementPosition]): getElementPosition never changes identity, so the
\* effect runs once, after the first render.
MountEffect ==
    /\ phase = "rendered"
    /\ phase' = "mounted"
    /\ timer' = "scheduled"
    /\ nScheduled' = nScheduled + 1
    /\ ev' = "mount"
    /\ calls' = <<>>
    /\ UNCHANGED <<hostVars, isVisibleProp, internalVisible, rectVars, pending, issued,
                   nPropChanges>>
    /\ Commit(modal)

\* The settle timer's callback, 500 ms after the effect ran.
TimerFire ==
    /\ timer = "scheduled"
    /\ Len(issued) < MaxRequests
    /\ timer' = "fired"
    /\ getElementPosition("timer")
    /\ ev' = "timer"
    /\ calls' = <<>>
    /\ UNCHANGED <<hostVars, isVisibleProp, phase, internalVisible, rectVars, modal, shown,
                   coord, style, countVars>>

\* Teardown: the effect's cleanup runs and the Modal goes with the component.
Unmount ==
    /\ phase = "mounted"
    /\ phase' = "unmounted"
    /\ timer' = clearTimeout(timer)
    /\ modal' = "hidden"
    /\ shown' = FALSE
    /\ ev' = "unmount"
    /\ calls' = <<>>
    /\ UNCHANGED <<hostVars, isVisibleProp, internalVisible, rectVars, pending, issued,
                   coord, style, countVars>>

-----------------------------------------------------------------------------
(* The component's specification *)

\* The state after the first render: props as the host gave them, state at
\* its useState defaults, effects not yet run.
Init ==
    /\ isIOS \in BOOLEAN
    /\ isRTL = FALSE
    /\ ScreenWidth = Px(400)
    /\ ScreenHeight = Px(800)
    /\ window = [width |-> Px(400), height |-> Px(800)]
    /\ isVisibleProp \in {"undefined", "true", "false"}
    /\ actionType \in {"press", "longPress", "none"}
    /\ withPointer = TRUE
    /\ width = Num(Px(150))
    /\ height = Num(Px(40))
    /\ phase = "rendered"
    /\ internalVisible = FALSE
    /\ xOffset = 0 /\ yOffset = 0 /\ elementWidth = 0 /\ elementHeight = 0
    /\ rectFrom = 0
    /\ timer = "none"
    /\ pending = {}
    /\ issued = <<>>
    /\ shown = isVisible(isVisibleProp, internalVisible)
    /\ modal = IF shown THEN "showing" ELSE "hidden"
    /\ coord = getTooltipCoordinate(0, 0, 0, 0, ScreenWidth, ScreenHeight, width, withPointer, window.width)
    /\ style = getTooltipStyle(0, 0, 0, 0, ScreenWidth, ScreenHeight, width, height, withPointer, window.width, isIOS, isRTL)
    /\ ev = "init"
    /\ calls = <<>>
    \* a popover visible from the first render counts as one Hidden->Visible
    /\ nOnOpen = 0 /\ nOnClose = 0 /\ nVisToHid = 0
    /\ nHidToVis = (IF shown THEN 1 ELSE 0)
    /\ nPropChanges = 0 /\ nScheduled = 0

Next ==
    \/ MountEffect
    \/ \E g \in {"press", "longPress"} : TriggerGesture(g)
    \/ OverlayPress
    \/ ModalOnShow
    \/ ModalOnDismiss
    \/ ModalRequestClose
    \/ \E v \in {"undefined", "true", "false"} : SetIsVisibleProp(v)
    \/ \E id \in 1..MaxRequests, r \in Rects : MeasureComplete(id, r)
    \/ TimerFire
    \/ Unmount

Spec == Init /\ [][Next]_vars

-----------------------------------------------------------------------------
(* The placement engine's specification: one render of the popover for each *)
(* anchor rectangle, viewport and popover size of the sets below.           *)

Viewports ==
    { [width |-> Px(400), height |-> Px(800)],
      [width |-> Px(800), height |-> Px(1000)] }

AnchorXs(vp) == { Px(i * AnchorStep) : i \in 0..((vp.width \div UnitsPerPx) \div AnchorStep) }
AnchorYs(vp) == { Px(i * 2 * AnchorStep) : i \in 0..((vp.height \div UnitsPerPx) \div (2 * AnchorStep)) }
ElementWidths == {0, Px(20), Px(50), Px(100)}
ElementHeights == {0, Px(20), Px(40)}
TooltipWidths(vp) ==
    { Num(0), Num(Px(150)), Num(vp.width - Px(10)), Num(vp.width), Pct(50),
      Str(<<"a", "b", "c", "%">>), Str(<<"a", "u", "t", "o">>) }

NoCoord == [x |-> 0, y |-> 0, qIndex |-> -1, tooltipWidth |-> 0, newX |-> 0]
NoStyle == [left |-> None, right |-> None, top |-> None, bottom |-> None, pastMiddleLine |-> FALSE]

\* Anchor {x: 20, y: 500, width: 100, height: 40} in an 800 x 1000 viewport.
ScenarioAnchorLeft ==
    /\ window = [width |-> Px(800), height |-> Px(1000)]
    /\ xOffset = Px(20) /\ yOffset = Px(500)
    /\ elementWidth = Px(100) /\ elementHeight = Px(40)
    /\ width = Num(Px(150))
    /\ withPointer = TRUE

\* Anchor {x: 0, y: 0, width: 50, height: 20} in a 400 x 800 viewport.
ScenarioAnchorCorner ==
    /\ window = [width |-> Px(400), height |-> Px(800)]
    /\ xOffset = 0 /\ yOffset = 0
    /\ elementWidth = Px(50) /\ elementHeight = Px(20)
    /\ width = Num(Px(150))
    /\ withPointer = TRUE

\* Anchor {x: 370, y: 100, width: 30, height: 30} in a 400 x 800 viewport.
ScenarioAnchorRightEdge ==
    /\ window = [width |-> Px(400), height |-> Px(800)]
    /\ xOffset = Px(370) /\ yOffset = Px(100)
    /\ elementWidth = Px(30) /\ elementHeight = Px(30)
    /\ width = Num(Px(150))
    /\ withPointer = TRUE

InitPlace ==
    /\ isIOS \in BOOLEAN
    /\ isRTL \in BOOLEAN
    /\ \/ /\ window \in Viewports
          /\ xOffset \in AnchorXs(window)
          /\ yOffset \in AnchorYs(window)
          /\ elementWidth \in ElementWidths
          /\ elementHeight \in ElementHeights
          /\ width \in TooltipWidths(window)
          /\ withPointer \in BOOLEAN
       \/ ScenarioAnchorLeft
       \/ ScenarioAnchorRightEdge
    /\ ScreenWidth = window.width
    /\ ScreenHeight = window.height
    /\ height = Num(Px(40))
    /\ isVisibleProp = "true"
    /\ actionType = "press"
    /\ phase = "mounted"
    /\ internalVisible = FALSE
    /\ rectFrom = 1
    /\ timer = "fired"
    /\ pending = {}
    /\ issued = <<"timer">>
    /\ shown = TRUE
    /\ modal = "shown"
    /\ coord = NoCoord
    /\ style = NoStyle
    /\ ev = "measured"
    /\ calls = <<>>
    /\ nOnOpen = 1 /\ nOnClose = 0 /\ nHidToVis = 1 /\ nVisToHid = 0
    /\ nPropChanges = 0 /\ nScheduled = 1

\* The device is rotated before the popover is rendered: Dimensions.get('window')
\* reports the new size from now on; the constants helpers.ts exported when
\* the module was loaded keep the size of that moment.
DimensionsChange ==
    /\ ev = "measured"
    /\ window.width # window.height
    /\ window' = [width |-> window.height, height |-> window.width]
    /\ ev' = "dimensions"
    /\ UNCHANGED <<isIOS, isRTL, ScreenWidth, ScreenHeight, actionType, withPointer, width, height>>
    /\ UNCHANGED <<isVisibleProp, phase, internalVisible, rectVars, timer, pending, issued,
                   modal, shown, coord, style, calls, countVars>>

\* renderContent(true) -> getTooltipStyle() -> getTooltipCoordinate(...)
RenderContent ==
    /\ ev \in {"measured", "dimensions"}
    /\ ev' = "render"
    /\ coord' = getTooltipCoordinate(xOffset, yOffset, elementWidth, elementHeight, ScreenWidth, ScreenHeight, width, withPointer, window.width)
    /\ style' = getTooltipStyle(xOffset, yOffset, elementWidth, elementHeight, ScreenWidth, ScreenHeight, width, height, withPointer, window.width, isIOS, isRTL)
    /\ UNCHANGED <<hostVars, isVisibleProp, phase, internalVisible, rectVars, timer, pending,
                   issued, modal, shown, calls, countVars>>

NextPlace ==
    \/ DimensionsChange
    \/ RenderContent

SpecPlace == InitPlace /\ [][NextPlace]_vars

-----------------------------------------------------------------------------
(* Properties of the placement engine (checked under SpecPlace) *)

Abs(n) == IF n < 0 THEN -n ELSE n

Rendered == ev = "render"

\* The distances from the anchor's centre to the viewport's edges (half pixels).
SpaceAbove == Abs(yOffset + elementHeight \div 2) \div HalfPx
SpaceBelow == Abs(ScreenHeight - (yOffset + elementHeight \div 2)) \div HalfPx
SpaceLeft  == Abs(xOffset + elementWidth \div 2) \div HalfPx
SpaceRight == Abs(ScreenWidth - (xOffset + elementWidth \div 2)) \div HalfPx

\* top-left, top-right, bottom-right, bottom-left
QuadrantArea ==
    << SpaceAbove * SpaceLeft, SpaceAbove * SpaceRight,
       SpaceBelow * SpaceRight, SpaceBelow * SpaceLeft >>

\* C1: for an anchor positioned inside the viewport and a popover no wider than
\* the viewport, the returned x keeps the popover on screen: x >= 0 and
\* x + popoverWidth <= viewportWidth.
C1_OnScreen ==
    ( /\ Rendered
      /\ xOffset \in 0..ScreenWidth
      /\ yOffset \in 0..ScreenHeight
      /\ coord.tooltipWidth \in 0..ScreenWidth )
    => /\ coord.x >= 0
       /\ coord.x + coord.tooltipWidth <= ScreenWidth

\* C7: the chosen quadrant has the largest area, and among quadrants of equal
\* largest area it is the first in the order top-left, top-right, bottom-right,
\* bottom-left; the returned y lies on that quadrant's side of the centre.
C7_LargestAreaFirst ==
    Rendered =>
        LET q == coord.qIndex + 1
        IN  /\ q \in 1..4
            /\ \A i \in 1..4 :
                  /\ QuadrantArea[i] <= QuadrantArea[q]
                  /\ (i < q => QuadrantArea[i] < QuadrantArea[q])
            /\ (q \in {1, 2} => coord.y <= yOffset + elementHeight \div 2)
            /\ (q \in {3, 4} => coord.y >= yOffset + elementHeight \div 2)

\* A render where bottom-right and bottom-left tie for the largest area.
C7_Witness ==
    /\ Rendered
    /\ QuadrantArea[3] = QuadrantArea[4]
    /\ QuadrantArea[3] > QuadrantArea[1]
    /\ coord.qIndex = 2

\* C8 as stated: for anchor {20, 500, 100, 40} in an 800 x 1000 viewport the
\* bottom-left quadrant is chosen, pastMiddleLine is false, y is 550 and x lies
\* within [10, 650].
C8_AsStated ==
    (Rendered /\ ScenarioAnchorLeft) =>
        /\ coord.qIndex = 3
        /\ \A i \in 1..3 : QuadrantArea[i] < QuadrantArea[4]
        /\ ~style.pastMiddleLine
        /\ coord.y = Px(550)
        /\ coord.x >= Px(10) /\ coord.x <= Px(650)

\* C8 amended: for that anchor the top-right quadrant has the largest area and
\* is chosen, pastMiddleLine is true, y is 490 (before the platform offset and
\* before the popover height is subtracted) and x lies within [10, 650].
C8_TopRight ==
    (Rendered /\ ScenarioAnchorLeft) =>
        /\ coord.qIndex = 1
        /\ \A i \in {1, 3, 4} : QuadrantArea[i] < QuadrantArea[2]
        /\ style.pastMiddleLine
        /\ coord.y = Px(490)
        /\ style.top = Some(Px(490) - Px(40) + statusBarOffset(isIOS))
        /\ coord.x >= Px(10) /\ coord.x <= Px(650)

C8_Witness == Rendered /\ ScenarioAnchorLeft /\ coord.x = Px(52) + dX

\* C9: for anchor {0, 0, 50, 20} in a 400 x 800 viewport with popover width 150
\* the chosen quadrant is bottom-right and the returned x is at least 10.
C9_CornerClamp ==
    (Rendered /\ ScenarioAnchorCorner) =>
        /\ coord.qIndex = 2
        /\ coord.x >= Px(10)

\* C11: every placement uses the viewport width and height current at the
\* moment it is computed: the coordinate rendered is the one the engine returns
\* for the window as it is now, for the quadrant, the clamp and a percentage
\* width alike.
C11_CurrentViewport ==
    Rendered =>
        coord = getTooltipCoordinate(xOffset, yOffset, elementWidth, elementHeight, window.width, window.height, width, withPointer, window.width)

\* A width the configuration accepts: a number or "<p>%" for a number p.
WellFormedWidth(dimension) ==
    \/ dimension.kind \in {"num", "pct"}
    \/ /\ dimension.kind = "str"
       /\ includesPercent(dimension.text)
       /\ replacePercent(dimension.text) # <<>>
       /\ ~IsNaN(Number(replacePercent(dimension.text)))

\* C12: a width that is neither a number nor a well-formed percentage string is
\* rejected before any placement is computed (no render happens with it), and
\* no placement has a NaN x coordinate.
C12_MalformedWidthRejected ==
    Rendered =>
        /\ WellFormedWidth(width)
        /\ ~IsNaN(coord.x)

\* The distance of the popover's left edge from the left edge of a viewport of
\* width w, for a popover of width pw: the left offset, or what a right offset
\* leaves.
DistanceFromLeft(st, w, pw) ==
    IF st.left # None THEN st.left[1] ELSE w - st.right[1] - pw

\* What getTooltipStyle returns for the rendered inputs in a layout direction.
StyleIn(rtl) == getTooltipStyle(xOffset, yOffset, elementWidth, elementHeight, ScreenWidth, ScreenHeight, width, height, withPointer, window.width, isIOS, rtl)

\* C13: the engine's x is the left offset, with no right offset, in LTR and the
\* right offset, with no left offset, in RTL, so exactly one of the two is set
\* in every render; for the same anchor, popover width and viewport width W the
\* distances from the left edge satisfy rtl_x = W - ltr_x - popoverWidth.
C13_RTLMirror ==
    Rendered =>
        LET ltr == StyleIn(FALSE)
            rtl == StyleIn(TRUE)
        IN  /\ style = (IF isRTL THEN rtl ELSE ltr)
            /\ ltr.left = Some(coord.x) /\ ltr.right = None
            /\ rtl.right = Some(coord.x) /\ rtl.left = None
            /\ (style.left = None) # (style.right = None)
            /\ ~IsNaN(coord.x) =>
                  DistanceFromLeft(rtl, window.width, coord.tooltipWidth)
                    = window.width - DistanceFromLeft(ltr, window.width, coord.tooltipWidth)
                      - coord.tooltipWidth

\* A render under RTL of a popover 150 wide in the bottom-left quadrant: its x
\* is the right offset, and no left offset is set.
C13_Witness ==
    /\ Rendered
    /\ isRTL
    /\ coord.qIndex = 3
    /\ coord.tooltipWidth = Px(150)
    /\ coord.x > 0
    /\ style.right = Some(coord.x)
    /\ style.left = None

\* The viewport is the one the module was loaded in.
SameViewport == window = [width |-> ScreenWidth, height |-> ScreenHeight]

\* C15: in a left quadrant, x is viewportWidth - 10 whenever the unclamped x
\* plus the popover width exceeds the viewport width, and 10 whenever the
\* unclamped x is negative; in a right quadrant, whenever the popover would
\* overflow the right edge, x is the unclamped x shifted left by the overflow
\* plus 10, which is viewportWidth - popoverWidth - 10.
C15_ClampX ==
    (Rendered /\ SameViewport /\ ~IsNaN(coord.x)) =>
        /\ (coord.qIndex \in {0, 3} /\ coord.newX + coord.tooltipWidth > ScreenWidth)
              => coord.x = ScreenWidth - Px(10)
        /\ (coord.qIndex \in {0, 3} /\ coord.newX < 0)
              => coord.x = Px(10)
        /\ (coord.qIndex \in {1, 2} /\ coord.newX + coord.tooltipWidth > ScreenWidth)
              => /\ coord.x = coord.newX - ((coord.newX + coord.tooltipWidth - ScreenWidth) + Px(10))
                 /\ coord.x = ScreenWidth - coord.tooltipWidth - Px(10)

\* C16: before clamping, the reference point is displaced from the anchor's
\* centre toward the chosen quadrant. With withPointer: horizontally by 18 (or
\* 18 plus the epsilon) to the right for a right quadrant and to the left for a
\* left one, before the popover width is subtracted, and vertically by half the
\* anchor height plus 10. Without: horizontally by the epsilon 0.001 and
\* vertically by half the anchor height.
C16_Displacement ==
    (Rendered /\ ~IsNaN(coord.newX)) =>
        LET dir  == directionCorrection[coord.qIndex + 1]
            c    == center(xOffset, yOffset, elementWidth, elementHeight)
            refX == coord.newX + (IF coord.qIndex \in {0, 3} THEN coord.tooltipWidth ELSE 0)
        IN  IF withPointer
            THEN /\ refX - c[1] \in {Px(18) * dir[1], (Px(18) + dX) * dir[1]}
                 /\ coord.y - c[2] = (elementHeight \div 2 + Px(10)) * dir[2]
            ELSE /\ refX - c[1] = dX * dir[1]
                 /\ coord.y - c[2] = (elementHeight \div 2) * dir[2]

\* C19: for a numeric popover height and an anchor of positive height, with or
\* without a pointer, the popover does not overlap the anchor vertically: in a
\* top quadrant pastMiddleLine is true and the popover's bottom edge is at or
\* above the anchor's top edge; in a bottom quadrant the flag is false and the
\* popover's top edge is at or below the anchor's bottom edge. (Both are drawn
\* in the Modal, the anchor's copy at top yOffset + statusBarOffset.)
C19_NoVerticalOverlap ==
    (Rendered /\ height.kind = "num" /\ elementHeight > 0) =>
        LET anchorTop    == yOffset + statusBarOffset(isIOS)
            anchorBottom == anchorTop + elementHeight
        IN  /\ style.top # None
            /\ coord.qIndex \in {0, 1} =>
                  /\ style.pastMiddleLine
                  /\ style.top[1] + height.v <= anchorTop
            /\ coord.qIndex \in {2, 3} =>
                  /\ ~style.pastMiddleLine
                  /\ style.top[1] >= anchorBottom

-----------------------------------------------------------------------------
(* Properties of the component (checked under Spec) *)

\* A step in which toggleTooltip ran.
ToggleStep ==
    /\ ev' \in {"press", "longPress", "overlayPress"}
    /\ Len(issued') = Len(issued) + 1

\* C2: the mode (controlled or not) never changes after construction.
C2_ModeFixed == [][isControlled(isVisibleProp') = isControlled(isVisibleProp)]_vars

\* C3: a toggle handled while isVisible is supplied leaves internalVisible as it
\* is and calls onVisibilityChange once, with the negation of the supplied
\* value; a toggle handled while it is not supplied flips internalVisible and
\* does not call onVisibilityChange. The Modal shows the supplied value in the
\* first case and internalVisible in the second.
C3_Exclusive ==
    [][ ToggleStep =>
          IF isVisibleProp # "undefined"
          THEN /\ internalVisible' = internalVisible
               /\ CountCalls(calls', "onVisibilityChange") = 1
               /\ calls'[1] = Call("onVisibilityChange", BoolStr(isVisibleProp # "true"))
               /\ shown = (isVisibleProp = "true")
               /\ shown' = (isVisibleProp = "true")
          ELSE /\ internalVisible' = ~internalVisible
               /\ CountCalls(calls', "onVisibilityChange") = 0
               /\ shown = internalVisible
               /\ shown' = internalVisible' ]_vars

\* A toggle handled with isVisible = true and internalVisible = true: the
\* overlay press asked the host to hide and left internalVisible alone.
C3_Witness ==
    /\ ev = "overlayPress"
    /\ isVisibleProp = "true"
    /\ internalVisible
    /\ calls # <<>>
    /\ calls[1] = Call("onVisibilityChange", "false")

\* C4: onClose has been invoked at most once per Visible->Hidden transition and
\* onOpen at most once per Hidden->Visible transition.
C4_OncePerTransition ==
    /\ nOnClose <= nVisToHid
    /\ nOnOpen <= nHidToVis

\* C5: a toggle never invokes onOpen; it invokes onClose (once) exactly when the
\* popover was visible before it and the platform is not iOS; in uncontrolled
\* mode from Hidden it makes the popover Visible and invokes no callback.
C5_ToggleCallbacks ==
    [][ ToggleStep =>
          /\ CountCalls(calls', "onOpen") = 0
          /\ nOnOpen' = nOnOpen
          /\ CountCalls(calls', "onClose") = (IF shown /\ ~isIOS THEN 1 ELSE 0)
          /\ nOnClose' = nOnClose + (IF shown /\ ~isIOS THEN 1 ELSE 0)
          /\ (isVisibleProp = "undefined" /\ ~shown => shown' /\ calls' = <<>>) ]_vars

\* An overlay press on iOS that hid the popover of an uncontrolled Tooltip.
C5_Witness ==
    /\ ev = "overlayPress"
    /\ isIOS
    /\ isVisibleProp = "undefined"
    /\ ~shown
    /\ calls = <<>>
    /\ nVisToHid = 1

\* C6: with actionType 'none' no gesture (press or long press on the trigger,
\* press on the overlay) runs the toggle.
C6_NoneDisablesGestures ==
    [][ (actionType = "none" /\ ev' \in {"press", "longPress", "overlayPress"}) =>
          /\ calls' = <<>>
          /\ issued' = issued
          /\ internalVisible' = internalVisible ]_vars

\* C10: the settle timer is scheduled once, at mount; it fires only while the
\* component is mounted and then issues one measurement request; teardown
\* cancels a timer still waiting, and a cancelled timer has issued no request.
C10_SettleTimer ==
    /\ [](/\ nScheduled = (IF phase = "rendered" THEN 0 ELSE 1)
          /\ (phase = "rendered" => timer = "none")
          /\ Cardinality({i \in DOMAIN issued : issued[i] = "timer"})
               = (IF timer = "fired" THEN 1 ELSE 0)
          /\ (phase = "unmounted" => timer \in {"fired", "cleared"}))
    /\ [][ /\ (timer' = "fired" /\ timer # "fired")
              => /\ phase = "mounted"
                 /\ timer = "scheduled"
                 /\ issued' = Append(issued, "timer")
           /\ (timer = "cleared" => timer' = "cleared")
           /\ (phase = "unmounted" => issued' = issued) ]_vars

\* Teardown before the timer fired: it is cancelled, and a measurement the
\* trigger had requested completes afterwards.
C10_Witness ==
    /\ phase = "unmounted"
    /\ timer = "cleared"
    /\ ev = "measuredLate"

\* C14: once every measurement request issued has completed, whatever the order
\* of the completions, the stored anchor rectangle is the one reported for the
\* request issued last.
C14_LastIssuedWins ==
    (phase = "mounted" /\ issued # <<>> /\ pending = {}) => rectFrom = Len(issued)

\* The stored anchor rectangle.
StoredRect == [x |-> xOffset, y |-> yOffset, w |-> elementWidth, h |-> elementHeight]

\* C17: the stored anchor rectangle changes only in a measurement completion,
\* which replaces all four fields with the values of that measurement; every
\* other step (trigger, visibility change, timer, render) leaves it unchanged.
\* It is all zeros before the first completion, and the placement rendered is
\* always the placement of the stored rectangle.
C17_RectFrame ==
    /\ [](rectFrom = 0 => StoredRect = [x |-> 0, y |-> 0, w |-> 0, h |-> 0])
    /\ [](coord = getTooltipCoordinate(xOffset, yOffset, elementWidth, elementHeight, ScreenWidth, ScreenHeight, width, withPointer, window.width))
    /\ [][ /\ (StoredRect' # StoredRect => ev' = "measured")
           /\ (ev' = "measured" => StoredRect' \in Rects /\ rectFrom' \in pending)
           /\ (ev' # "measured" => StoredRect' = StoredRect /\ rectFrom' = rectFrom) ]_vars

\* A second completion replaced the rectangle of the first, and the Modal's
\* onShow after it left the rectangle as it was.
C17_Witness ==
    /\ ev = "onShow"
    /\ rectFrom = 2
    /\ StoredRect = [x |-> Px(20), y |-> Px(500), w |-> Px(100), h |-> Px(40)]
    /\ coord.y = Px(490)

====
